---- MODULE Spec2Model ----
(***************************************************************************)
(* The conversation aggregate of the chat backend: the Conversation schema *)
(* and its methods (backend/models/Conversation.js), the conversation      *)
(* router (backend/routes/conversations.js) and the two chat relays.       *)
(*                                                                         *)
(* Text is a sequence of one-character strings, so that substring, trim,   *)
(* length and case folding are computed as the code computes them.  A      *)
(* request body or query is a function whose domain is the set of keys the *)
(* client sent.  "undefined" is the empty sequence <<>> wherever a value   *)
(* is optional (an array index out of range, findOne's null).              *)
(* Timestamps are kept as ranks 1..n: the responses modelled here depend   *)
(* on their order only.                                                    *)
(***************************************************************************)
EXTENDS Integers, Sequences, FiniteSets, TLC

VARIABLES
    store,      \* the conversations collection: _id -> stored document
    nextId,     \* how many ObjectIds have been generated by inserts
    req,        \* the request being served
    res,        \* the response sent for it
    call,       \* the provider invocations made while serving it
    hist,       \* history: per _id, the appendMessage calls that succeeded
    procs       \* the requests in flight whose handlers run step by step

vars == <<store, nextId, req, res, call, hist, procs>>

-----------------------------------------------------------------------------
(* Bounds of the model *)

MaxConvs == 2       \* inserts, where several conversations matter
FewConvs == 1       \* inserts, where the messages of one conversation matter
ListConvs == 3      \* inserts, where pages are listed
OwnMsgs == 1        \* messages per conversation under Spec
MaxMsgs == 3        \* messages per conversation
MaxChatMsgs == 13   \* messages per conversation under SpecChat
MaxCalls == 2       \* requests in flight at once
LateCalls == 1      \* requests in flight at once, where a delete comes between

(* Program constants *)

TitlePrefixLen == 50
TitleMaxLen == 100
ContextWindow == 10
DefaultPage == 1
DefaultLimit == 20
DefaultTemperature == 7
MaxTemperature == 20
DefaultMaxTokens == 1000

DefaultModel == "gpt-4o-mini"
DefaultTitle == <<"N", "e", "w", " ", "C", "h", "a", "t">>
Roles == {"user", "assistant"}

-----------------------------------------------------------------------------
(* Text *)

Rep(c, n) == [i \in 1..n |-> c]

Min(a, b) == IF a < b THEN a ELSE b

Max(a, b) == IF a > b THEN a ELSE b

UpperChars == <<"A", "B", "C", "D", "E", "F", "G", "H", "I", "J", "K", "L", "M",
                "N", "O", "P", "Q", "R", "S", "T", "U", "V", "W", "X", "Y", "Z">>

LowerChars == <<"a", "b", "c", "d", "e", "f", "g", "h", "i", "j", "k", "l", "m",
                "n", "o", "p", "q", "r", "s", "t", "u", "v", "w", "x", "y", "z">>

ToLower(c) ==
    IF \E i \in 1..Len(UpperChars) : UpperChars[i] = c
    THEN LowerChars[CHOOSE i \in 1..Len(UpperChars) : UpperChars[i] = c]
    ELSE c

\* String.prototype.substring(from, to) for 0 <= from <= to
Substring(s, from, to) == SubSeq(s, from + 1, Min(to, Len(s)))

\* the schema option trim: true (String.prototype.trim)
Trim(s) ==
    LET keep == {i \in 1..Len(s) : s[i] # " "}
    IN  IF keep = {} THEN <<>>
        ELSE SubSeq(s, CHOOSE i \in keep : \A j \in keep : i <= j,
                       CHOOSE i \in keep : \A j \in keep : i >= j)

\* { $regex: pattern, $options: 'i' }: an unanchored, case-insensitive match;
\* of the metacharacters only "." (any character) is modelled
RegexTest(pattern, s) ==
    \E i \in 0..(Len(s) - Len(pattern)) :
        \A k \in 1..Len(pattern) :
            \/ pattern[k] = "."
            \/ ToLower(pattern[k]) = ToLower(s[i + k])

\* Math.ceil(a / b) for a >= 0, b >= 1
Ceil(a, b) == (a + b - 1) \div b

\* arr[i] of a JavaScript array: <<>> (undefined) outside 0..length-1
ArrayAt(arr, i) == IF i >= 0 /\ i < Len(arr) THEN <<arr[i + 1]>> ELSE <<>>

\* slice(0, n) in place of slice(-n)
SliceFirst(arr, n) == SubSeq(arr, 1, Min(n, Len(arr)))

\* Array.prototype.slice(-n)
SliceLast(arr, n) == SubSeq(arr, Max(1, Len(arr) - n + 1), Len(arr))

Has(obj, key) == key \in DOMAIN obj

\* obj.key with a default, as in destructuring { key = dflt }
Field(obj, key, dflt) == IF Has(obj, key) THEN obj[key] ELSE dflt

\* { ...a, ...b }
Spread(a, b) == [k \in DOMAIN a \cup DOMAIN b |-> IF k \in DOMAIN b THEN b[k] ELSE a[k]]

\* the empty object {}
EmptyObject == [k \in {} |-> 0]

-----------------------------------------------------------------------------
(* ObjectIds.  OidNames are the values that cast to an ObjectId, in the    *)
(* order inserts generate them; any other path segment ("search") fails    *)
(* the cast.                                                               *)

OidNames == <<"c1", "c2", "c3", "c4", "c5", "c6">>

ObjectIds == {OidNames[i] : i \in 1..(MaxConvs + 1)}

IsObjectId(s) == \E i \in 1..Len(OidNames) : OidNames[i] = s

Owners == {"A", "B"}

-----------------------------------------------------------------------------
(* The schemas (models/Conversation.js) *)

\* a message subdocument as DocumentArray.push casts it: content trimmed,
\* model defaulted
CastMessage(role, content, model) ==
    [role |-> role, content |-> Trim(content), model |-> model]

\* messageSchema's validators: role enum + required, content required
ValidMessage(m) == m.role \in Roles /\ m.content # <<>>

\* settings as read from a stored document: schema defaults fill absent keys
HydrateSettings(s) ==
    Spread([temperature |-> DefaultTemperature, maxTokens |-> DefaultMaxTokens], s)

ValidSettings(s) ==
    Has(s, "temperature") => (s.temperature >= 0 /\ s.temperature <= MaxTemperature)

\* title: required, trim, maxlength 100 (validated after the trim setter ran)
ValidTitle(t) == t # <<>> /\ Len(t) <= TitleMaxLen

\* conversationSchema's validators, as document.validate() runs them on save
ValidConversation(doc) ==
    /\ ValidTitle(doc.title)
    /\ \A i \in 1..Len(doc.messages) : ValidMessage(doc.messages[i])
    /\ ValidSettings(doc.settings)

\* new Conversation({ userId, title }): setters and defaults applied
NewConversation(userId, title) ==
    [userId |-> userId,
     title |-> Trim(title),
     messages |-> <<>>,
     isArchived |-> FALSE,
     isPinned |-> FALSE,
     tags |-> <<>>,
     model |-> DefaultModel,
     settings |-> [temperature |-> DefaultTemperature, maxTokens |-> DefaultMaxTokens],
     updatedAt |-> 0]

\* a stored document as a query returns it
Hydrate(doc) == [doc EXCEPT !.settings = HydrateSettings(@)]

\* timestamps: true.  updatedAt is a rank; Stamp gives id the newest one.
Ranked(st) ==
    [i \in DOMAIN st |->
        [st[i] EXCEPT !.updatedAt =
            Cardinality({j \in DOMAIN st : st[j].updatedAt <= st[i].updatedAt})]]

Stamp(st, id) ==
    Ranked([st EXCEPT ![id].updatedAt = Cardinality(DOMAIN st) + 1])

\* findOne with the owner left out of the filter
FindOneAnyOwner(st, id, userId) ==
    IF ~IsObjectId(id) THEN [error |-> "CastError", doc |-> <<>>]
    ELSE IF id \in DOMAIN st THEN [error |-> "", doc |-> <<Hydrate(st[id])>>]
    ELSE [error |-> "", doc |-> <<>>]

\* Conversation.findOne({ _id, userId }): throws CastError when _id does not
\* cast; doc is <<>> (null) when nothing matches, else <<document>>
FindOne(st, id, userId) ==
    IF ~IsObjectId(id) THEN [error |-> "CastError", doc |-> <<>>]
    ELSE IF id \in DOMAIN st /\ st[id].userId = userId
    THEN [error |-> "", doc |-> <<Hydrate(st[id])>>]
    ELSE [error |-> "", doc |-> <<>>]

\* A document in a handler's memory: the document, what was loaded or last
\* saved (loaded = <<>> for a document not yet inserted), and its _id.
Loaded(id, doc) == [id |-> id, doc |-> doc, loaded |-> <<doc>>]

Fresh(id, doc) == [id |-> id, doc |-> doc, loaded |-> <<>>]

\* save() sending the messages array whole, as the handler holds it, in
\* place of the messages pushed since the load
SaveWhole(st, mem) ==
    IF ~ValidConversation(mem.doc)
    THEN [ok |-> FALSE, error |-> "ValidationError", store |-> st, mem |-> mem]
    ELSE IF mem.loaded = <<>>
    THEN LET st1 == Stamp((mem.id :> mem.doc) @@ st, mem.id)
         IN  [ok |-> TRUE, error |-> "", store |-> st1,
              mem |-> Loaded(mem.id, [mem.doc EXCEPT !.updatedAt = st1[mem.id].updatedAt])]
    ELSE IF mem.doc = mem.loaded[1]
    THEN [ok |-> TRUE, error |-> "", store |-> st, mem |-> mem]
    ELSE IF mem.id \notin DOMAIN st
    THEN [ok |-> FALSE, error |-> "DocumentNotFoundError", store |-> st, mem |-> mem]
    ELSE LET st1 == Stamp([st EXCEPT ![mem.id] =
                              [@ EXCEPT !.messages = mem.doc.messages,
                                        !.model = mem.doc.model,
                                        !.title = mem.doc.title]], mem.id)
         IN  [ok |-> TRUE, error |-> "", store |-> st1,
              mem |-> Loaded(mem.id, [mem.doc EXCEPT !.updatedAt = st1[mem.id].updatedAt])]

\* save() sending its changes as an upsert: a loaded document that is no
\* longer stored is written back whole
SaveUpsert(st, mem) ==
    IF ~ValidConversation(mem.doc)
    THEN [ok |-> FALSE, error |-> "ValidationError", store |-> st, mem |-> mem]
    ELSE IF mem.loaded = <<>> \/ mem.id \notin DOMAIN st
    THEN LET st1 == Stamp((mem.id :> mem.doc) @@ st, mem.id)
         IN  [ok |-> TRUE, error |-> "", store |-> st1,
              mem |-> Loaded(mem.id, [mem.doc EXCEPT !.updatedAt = st1[mem.id].updatedAt])]
    ELSE LET old == mem.loaded[1]
             pushed == SubSeq(mem.doc.messages, Len(old.messages) + 1, Len(mem.doc.messages))
         IN  IF pushed = <<>> /\ mem.doc.model = old.model /\ mem.doc.title = old.title
             THEN [ok |-> TRUE, error |-> "", store |-> st, mem |-> mem]
             ELSE LET st1 == Stamp([st EXCEPT ![mem.id] =
                                       [@ EXCEPT !.messages = @ \o pushed,
                                                 !.model = IF mem.doc.model # old.model
                                                           THEN mem.doc.model ELSE @,
                                                 !.title = IF mem.doc.title # old.title
                                                           THEN mem.doc.title ELSE @]],
                                   mem.id)
                  IN  [ok |-> TRUE, error |-> "", store |-> st1,
                       mem |-> Loaded(mem.id, [mem.doc EXCEPT !.updatedAt = st1[mem.id].updatedAt])]

\* document.save(): validates, then inserts a new document, or sends the
\* changes made since the load: $push of the appended messages and $set of
\* the changed paths (a path that was not changed keeps what is stored).
\* [ok, error, store, mem]
Save(st, mem) ==
    IF ~ValidConversation(mem.doc)
    THEN [ok |-> FALSE, error |-> "ValidationError", store |-> st, mem |-> mem]
    ELSE IF mem.loaded = <<>>
    THEN LET st1 == Stamp((mem.id :> mem.doc) @@ st, mem.id)
         IN  [ok |-> TRUE, error |-> "", store |-> st1,
              mem |-> Loaded(mem.id, [mem.doc EXCEPT !.updatedAt = st1[mem.id].updatedAt])]
    ELSE LET old == mem.loaded[1]
             pushed == SubSeq(mem.doc.messages, Len(old.messages) + 1, Len(mem.doc.messages))
         IN  IF pushed = <<>> /\ mem.doc.model = old.model /\ mem.doc.title = old.title
             THEN [ok |-> TRUE, error |-> "", store |-> st, mem |-> mem]
             ELSE IF mem.id \notin DOMAIN st
             THEN [ok |-> FALSE, error |-> "DocumentNotFoundError", store |-> st, mem |-> mem]
             ELSE LET st1 == Stamp([st EXCEPT ![mem.id] =
                                       [@ EXCEPT !.messages = @ \o pushed,
                                                 !.model = IF mem.doc.model # old.model
                                                           THEN mem.doc.model ELSE @,
                                                 !.title = IF mem.doc.title # old.title
                                                           THEN mem.doc.title ELSE @]],
                                   mem.id)
                  IN  [ok |-> TRUE, error |-> "", store |-> st1,
                       mem |-> Loaded(mem.id, [mem.doc EXCEPT !.updatedAt = st1[mem.id].updatedAt])]

\* virtual('messageCount')
messageCount(doc) == Len(doc.messages)

\* methods.addMessage: push, set model, save
addMessage(st, mem, role, content, model) ==
    Save(st, [mem EXCEPT !.doc.messages = Append(@, CastMessage(role, content, model)),
                         !.doc.model = model])

\* methods.updateTitleFromFirstMessage
updateTitleFromFirstMessage(st, mem) ==
    LET users == {i \in 1..Len(mem.doc.messages) : mem.doc.messages[i].role = "user"}
        firstUserMessage ==
            IF users = {} THEN <<>>
            ELSE <<mem.doc.messages[CHOOSE i \in users : \A j \in users : i <= j]>>
    IN  IF firstUserMessage # <<>> /\ mem.doc.title = <<>>
        THEN LET content == firstUserMessage[1].content
             IN  Save(st, [mem EXCEPT !.doc.title =
                     Trim(Substring(content, 0, TitlePrefixLen)
                          \o (IF Len(content) > TitlePrefixLen THEN <<".", ".", ".">> ELSE <<>>))])
        ELSE Save(st, mem)

\* getSummary indexing the last message one place too far
getSummaryPastEnd(mem) ==
    [id |-> mem.id,
     title |-> mem.doc.title,
     messageCount |-> messageCount(mem.doc),
     lastMessage |-> ArrayAt(mem.doc.messages, Len(mem.doc.messages)),
     updatedAt |-> mem.doc.updatedAt,
     isArchived |-> mem.doc.isArchived,
     isPinned |-> mem.doc.isPinned,
     tags |-> mem.doc.tags]

\* methods.getSummary
getSummary(mem) ==
    [id |-> mem.id,
     title |-> mem.doc.title,
     messageCount |-> messageCount(mem.doc),
     lastMessage |-> ArrayAt(mem.doc.messages, Len(mem.doc.messages) - 1),
     updatedAt |-> mem.doc.updatedAt,
     isArchived |-> mem.doc.isArchived,
     isPinned |-> mem.doc.isPinned,
     tags |-> mem.doc.tags]

-----------------------------------------------------------------------------
(* The conversation router (routes/conversations.js).  A handler maps the  *)
(* store and a request to the store after it and the response it sends.    *)

Answer(st, nid, handler, status, error, body) ==
    [store |-> st, nextId |-> nid, calls |-> <<>>,
     res |-> [handler |-> handler, status |-> status, error |-> error, body |-> body]]

\* sort({ updatedAt: 1 }) in place of -1
SortedByUpdatedAsc(st, ids) ==
    [k \in 1..Cardinality(ids) |->
        CHOOSE i \in ids :
            Cardinality({j \in ids : st[j].updatedAt <= st[i].updatedAt}) = k]

\* find(query).sort({ updatedAt: -1 })
SortedByUpdatedDesc(st, ids) ==
    [k \in 1..Cardinality(ids) |->
        CHOOSE i \in ids :
            Cardinality({j \in ids : st[j].updatedAt >= st[i].updatedAt}) = k]

\* .limit(n).skip(k): a limit of 0 is no limit
Page(seq, skip, limit) ==
    SubSeq(seq, skip + 1, IF limit = 0 THEN Len(seq) ELSE Min(skip + limit, Len(seq)))

\* .select('title messageCount lastMessage createdAt updatedAt isArchived
\* isPinned tags'): the selected paths the schema has, and _id
Selected(st, id) ==
    [id |-> id,
     title |-> st[id].title,
     updatedAt |-> st[id].updatedAt,
     isArchived |-> st[id].isArchived,
     isPinned |-> st[id].isPinned,
     tags |-> st[id].tags]

MatchesTitleOrContent(doc, pattern) ==
    \/ RegexTest(pattern, doc.title)
    \/ \E i \in 1..Len(doc.messages) : RegexTest(pattern, doc.messages[i].content)

\* the page of a result set and its counts, as list and search answer them
PageBody(st, found, page, limit) ==
    [conversations |->
        [k \in 1..Len(Page(SortedByUpdatedDesc(st, found), (page - 1) * limit, limit)) |->
            Selected(st, Page(SortedByUpdatedDesc(st, found), (page - 1) * limit, limit)[k])],
     totalPages |-> Ceil(Cardinality(found), limit),
     currentPage |-> page,
     total |-> Cardinality(found)]

\* the documents the list query matches
ListFound(st, owner, archived, search) ==
    {i \in DOMAIN st :
        /\ st[i].userId = owner
        /\ st[i].isArchived = (archived = "true")
        /\ (search # <<>> => MatchesTitleOrContent(st[i], search))}

\* router.get('/')
ListHandler(st, nid, r) ==
    Answer(st, nid, "list", 200, "",
           PageBody(st,
                    ListFound(st, r.owner, Field(r.query, "archived", "false"),
                              Field(r.query, "search", <<>>)),
                    Field(r.query, "page", DefaultPage),
                    Field(r.query, "limit", DefaultLimit)))

Unsaved(st, mem) == [ok |-> TRUE, error |-> "", store |-> st, mem |-> mem]

\* await conversation.updateTitleFromFirstMessage(), unless a step before threw
ThenTitle(s) == IF s.ok THEN updateTitleFromFirstMessage(s.store, s.mem) ELSE s

\* await conversation.save(), unless a step before threw
ThenSave(s) == IF s.ok THEN Save(s.store, s.mem) ELSE s

\* the create handler's response, or its catch block's
CreateAnswer(nid, id, s) ==
    IF s.ok
    THEN Answer(s.store, nid + 1, "create", 201, "", getSummary(s.mem))
    ELSE IF s.error = "ValidationError"
    THEN Answer(s.store, IF id \in DOMAIN s.store THEN nid + 1 ELSE nid,
                "create", 400, "ValidationError", EmptyObject)
    ELSE Answer(s.store, IF id \in DOMAIN s.store THEN nid + 1 ELSE nid,
                "create", 500, "Server error while creating conversation", EmptyObject)

CreateSteps(st, conversation, initialMessage) ==
    ThenSave(IF initialMessage # <<>>
             THEN ThenTitle(addMessage(st, conversation, "user", initialMessage, DefaultModel))
             ELSE Unsaved(st, conversation))

TitleOrDefault(title) == IF title # <<>> THEN title ELSE DefaultTitle

\* router.post('/')
CreateHandler(st, nid, r) ==
    CreateAnswer(nid, OidNames[nid + 1],
        CreateSteps(st,
                    Fresh(OidNames[nid + 1],
                          NewConversation(r.owner, TitleOrDefault(Field(r.body, "title", <<>>)))),
                    Field(r.body, "initialMessage", <<>>)))

GetAnswer(st, nid, id, found) ==
    IF found.error = "CastError"
    THEN Answer(st, nid, "get", 400, "Invalid conversation ID", EmptyObject)
    ELSE IF found.doc = <<>>
    THEN Answer(st, nid, "get", 404, "Conversation not found", EmptyObject)
    ELSE Answer(st, nid, "get", 200, "", [id |-> id, conversation |-> found.doc[1]])

\* router.get('/:id')
GetHandler(st, nid, r) == GetAnswer(st, nid, r.path[1], FindOne(st, r.path[1], r.owner))

\* the update document the PUT handler builds from the body
SetIfDefined(updates, body, key) ==
    IF Has(body, key) THEN Spread(updates, [k \in {key} |-> body[key]]) ELSE updates

SetSettings(updates, body) ==
    IF Has(body, "settings")
    THEN Spread(updates,
                [settings |-> Spread(Field(updates, "settings", EmptyObject), body.settings)])
    ELSE updates

UpdatesOf(body) ==
    SetSettings(
        SetIfDefined(
            SetIfDefined(
                SetIfDefined(
                    SetIfDefined(EmptyObject, body, "title"),
                    body, "tags"),
                body, "isArchived"),
            body, "isPinned"),
        body)

\* the update as Mongoose casts it: the schema's setters (trim) applied
CastUpdates(u) ==
    [k \in DOMAIN u |->
        IF k = "title" THEN Trim(u[k])
        ELSE IF k = "tags" THEN [i \in 1..Len(u[k]) |-> Trim(u[k][i])]
        ELSE u[k]]

\* runValidators: true: the validators of the paths the update sets
ValidUpdates(u) ==
    /\ Has(u, "title") => ValidTitle(u.title)
    /\ Has(u, "settings") => ValidSettings(u.settings)

\* Conversation.findOneAndUpdate({ _id, userId }, updates, { new: true,
\* runValidators: true }): each key of updates is $set, replacing the stored
\* value of that path
ApplyUpdate(st, id, u) == Stamp([st EXCEPT ![id] = Spread(@, u)], id)

Updated(st1, id) == [error |-> "", doc |-> <<Hydrate(st1[id])>>, store |-> st1]

CastedUpdate(st, id, userId, u) ==
    IF ~IsObjectId(id) THEN [error |-> "CastError", doc |-> <<>>, store |-> st]
    ELSE IF ~ValidUpdates(u) THEN [error |-> "ValidationError", doc |-> <<>>, store |-> st]
    ELSE IF id \in DOMAIN st /\ st[id].userId = userId
    THEN Updated(ApplyUpdate(st, id, u), id)
    ELSE [error |-> "", doc |-> <<>>, store |-> st]

FindOneAndUpdate(st, id, userId, updates) == CastedUpdate(st, id, userId, CastUpdates(updates))

UpdateAnswer(st, nid, id, out) ==
    IF out.error = "ValidationError"
    THEN Answer(st, nid, "update", 400, "ValidationError", EmptyObject)
    ELSE IF out.error = "CastError"
    THEN Answer(st, nid, "update", 400, "Invalid conversation ID", EmptyObject)
    ELSE IF out.doc = <<>>
    THEN Answer(st, nid, "update", 404, "Conversation not found", EmptyObject)
    ELSE Answer(out.store, nid, "update", 200, "", getSummary(Loaded(id, out.doc[1])))

\* router.put('/:id')
UpdateHandler(st, nid, r) ==
    UpdateAnswer(st, nid, r.path[1],
                 FindOneAndUpdate(st, r.path[1], r.owner, UpdatesOf(r.body)))

\* Conversation.findOneAndDelete({ _id, userId })
FindOneAndDelete(st, id, userId) ==
    IF ~IsObjectId(id) THEN [error |-> "CastError", doc |-> <<>>, store |-> st]
    ELSE IF id \in DOMAIN st /\ st[id].userId = userId
    THEN [error |-> "", doc |-> <<Hydrate(st[id])>>,
          store |-> Ranked([i \in DOMAIN st \ {id} |-> st[i]])]
    ELSE [error |-> "", doc |-> <<>>, store |-> st]

DeleteAnswer(st, nid, out) ==
    IF out.error = "CastError"
    THEN Answer(st, nid, "delete", 400, "Invalid conversation ID", EmptyObject)
    ELSE IF out.doc = <<>>
    THEN Answer(st, nid, "delete", 404, "Conversation not found", EmptyObject)
    ELSE Answer(out.store, nid, "delete", 200, "", EmptyObject)

\* router.delete('/:id')
DeleteHandler(st, nid, r) == DeleteAnswer(st, nid, FindOneAndDelete(st, r.path[1], r.owner))

\* what the message handler's catch block answers for a thrown error
AppendCatch(st, nid, error) ==
    IF error = "ValidationError"
    THEN Answer(st, nid, "appendMessage", 400, "ValidationError", EmptyObject)
    ELSE IF error = "CastError"
    THEN Answer(st, nid, "appendMessage", 400, "Invalid conversation ID", EmptyObject)
    ELSE Answer(st, nid, "appendMessage", 500, "Server error while adding message", EmptyObject)

\* the title is derived when the message just saved is the first
ThenTitleIfFirst(s) ==
    IF s.ok /\ Len(s.mem.doc.messages) = 1
    THEN updateTitleFromFirstMessage(s.store, s.mem)
    ELSE s

AppendAnswer(nid, s) ==
    IF s.ok
    THEN Answer(s.store, nid, "appendMessage", 200, "", getSummary(s.mem))
    ELSE AppendCatch(s.store, nid, s.error)

\* the handler from findOne on, the body having passed the two checks
AppendFound(st, nid, id, found, role, content, model) ==
    IF found.error # "" THEN AppendCatch(st, nid, found.error)
    ELSE IF found.doc = <<>>
    THEN Answer(st, nid, "appendMessage", 404, "Conversation not found", EmptyObject)
    ELSE AppendAnswer(nid,
            ThenTitleIfFirst(addMessage(st, Loaded(id, found.doc[1]), role, content, model)))

\* the message handler without its two checks of the body
AppendUnchecked(st, nid, r, role, content, model) ==
    AppendFound(st, nid, r.path[1], FindOne(st, r.path[1], r.owner), role, content, model)

AppendChecked(st, nid, r, role, content, model) ==
    IF role = "" \/ content = <<>>
    THEN Answer(st, nid, "appendMessage", 400, "Role and content are required", EmptyObject)
    ELSE IF role \notin {"user", "assistant"}
    THEN Answer(st, nid, "appendMessage", 400,
                "Role must be either \"user\" or \"assistant\"", EmptyObject)
    ELSE AppendFound(st, nid, r.path[1], FindOne(st, r.path[1], r.owner), role, content, model)

\* router.post('/:id/messages')
AppendHandler(st, nid, r) ==
    AppendChecked(st, nid, r, Field(r.body, "role", ""), Field(r.body, "content", <<>>),
                  Field(r.body, "model", DefaultModel))

\* the documents the search query matches
SearchFound(st, owner, q) ==
    {i \in DOMAIN st :
        /\ st[i].userId = owner
        /\ \/ MatchesTitleOrContent(st[i], q)
           \/ \E t \in 1..Len(st[i].tags) : RegexTest(q, st[i].tags[t])}

SearchAnswer(st, nid, owner, q, page, limit) ==
    IF q = <<>>
    THEN Answer(st, nid, "search", 400, "Search query is required", EmptyObject)
    ELSE Answer(st, nid, "search", 200, "",
                Spread(PageBody(st, SearchFound(st, owner, q), page, limit), [query |-> q]))

\* router.get('/search')
SearchHandler(st, nid, r) ==
    SearchAnswer(st, nid, r.owner, Field(r.query, "q", <<>>),
                 Field(r.query, "page", DefaultPage), Field(r.query, "limit", DefaultLimit))

\* The router's table, in the order the routes are registered: Express
\* gives a request to the first route whose method and path pattern match.
Routes ==
    <<[method |-> "GET",    pattern |-> <<>>,                  handler |-> "list"],
      [method |-> "POST",   pattern |-> <<>>,                  handler |-> "create"],
      [method |-> "GET",    pattern |-> <<":id">>,             handler |-> "get"],
      [method |-> "PUT",    pattern |-> <<":id">>,             handler |-> "update"],
      [method |-> "DELETE", pattern |-> <<":id">>,             handler |-> "delete"],
      [method |-> "POST",   pattern |-> <<":id", "messages">>, handler |-> "appendMessage"],
      [method |-> "GET",    pattern |-> <<"search">>,          handler |-> "search"]>>

PathMatches(pattern, path) ==
    /\ Len(pattern) = Len(path)
    /\ \A k \in 1..Len(pattern) : pattern[k] = ":id" \/ pattern[k] = path[k]

Dispatch(method, path) ==
    LET hits == {i \in 1..Len(Routes) :
                    Routes[i].method = method /\ PathMatches(Routes[i].pattern, path)}
    IN  IF hits = {} THEN "none"
        ELSE Routes[CHOOSE i \in hits : \A j \in hits : i <= j].handler

\* app.use('/api/conversations', conversationRoutes), and the 404 handler
ServeBy(handler, st, nid, r) ==
    CASE handler = "list" -> ListHandler(st, nid, r)
      [] handler = "create" -> CreateHandler(st, nid, r)
      [] handler = "get" -> GetHandler(st, nid, r)
      [] handler = "update" -> UpdateHandler(st, nid, r)
      [] handler = "delete" -> DeleteHandler(st, nid, r)
      [] handler = "appendMessage" -> AppendHandler(st, nid, r)
      [] handler = "search" -> SearchHandler(st, nid, r)
      [] OTHER -> Answer(st, nid, "none", 404, "Route not found", EmptyObject)

Serve(st, nid, r) == ServeBy(Dispatch(r.method, r.path), st, nid, r)

-----------------------------------------------------------------------------
(* The chat relay: app.post('/api/chat').  The provider is the environment:*)
(* outcome is what openai.chat.completions.create does for this call,      *)
(* [ok |-> TRUE, content] or a thrown error [ok |-> FALSE, status], where  *)
(* status is error.response?.status (0 when the error carries none).       *)

ChatAnswer(st, status, error, body, calls) ==
    [store |-> st, calls |-> calls,
     res |-> [handler |-> "chat", status |-> status, error |-> error, body |-> body]]

\* a catch block that answers 500 whatever the error, as the first relay's
ChatCatchPlain(st, status, calls) ==
    ChatAnswer(st, 500, "Something went wrong with the AI service", EmptyObject, calls)

\* the catch block: classification by error.response?.status
ChatCatch(st, status, calls) ==
    IF status = 401 THEN ChatAnswer(st, 401, "Invalid OpenAI API key", EmptyObject, calls)
    ELSE IF status = 429
    THEN ChatAnswer(st, 429, "Rate limit exceeded. Please try again later.", EmptyObject, calls)
    ELSE ChatAnswer(st, 500, "Something went wrong with the AI service", EmptyObject, calls)

\* the context: the last 10 messages, each reduced to { role, content }
ContextOf(conversation) ==
    LET recentMessages == SliceLast(conversation.messages, ContextWindow)
    IN  [i \in 1..Len(recentMessages) |->
            [role |-> recentMessages[i].role, content |-> recentMessages[i].content]]

\* await conversation.addMessage('assistant', aiResponse), unless the first
\* addMessage threw
ThenAssistant(s, aiResponse) ==
    IF s.ok THEN addMessage(s.store, s.mem, "assistant", aiResponse, DefaultModel) ELSE s

\* the two addMessage calls after the provider answered
ChatPersist(st, conversationId, conversation, message, aiResponse) ==
    ThenAssistant(addMessage(st, Loaded(conversationId, conversation), "user", message,
                             DefaultModel),
                  aiResponse)

\* the second findOne and what follows it
ChatSaved(st, conversationId, second, message, aiResponse) ==
    IF second.doc # <<>>
    THEN ChatPersist(st, conversationId, second.doc[1], message, aiResponse)
    ELSE [ok |-> TRUE, error |-> "", store |-> st]

\* the response naming the conversation only when the messages were saved
ChatEndNamingSaved(saved, conversationId, aiResponse, calls) ==
    IF saved.ok
    THEN ChatAnswer(saved.store, 200, "",
                    [reply |-> aiResponse,
                     conversationId |-> IF Has(saved, "mem") THEN conversationId ELSE ""],
                    calls)
    ELSE ChatCatch(saved.store, 0, calls)

\* the response, or the catch block when a save threw
ChatEnd(saved, conversationId, aiResponse, calls) ==
    IF saved.ok
    THEN ChatAnswer(saved.store, 200, "",
                    [reply |-> aiResponse, conversationId |-> conversationId], calls)
    ELSE ChatCatch(saved.store, 0, calls)

\* findOne when either id was sent
ChatFindEither(st, conversationId, userId) ==
    IF conversationId # "" \/ userId # ""
    THEN FindOne(st, conversationId, userId)
    ELSE [error |-> "", doc |-> <<>>]

\* findOne when both ids were sent
ChatFind(st, conversationId, userId) ==
    IF conversationId # "" /\ userId # ""
    THEN FindOne(st, conversationId, userId)
    ELSE [error |-> "", doc |-> <<>>]

\* the messages sent to the provider
ChatMessages(first, message) ==
    (IF first.doc # <<>> THEN ContextOf(first.doc[1]) ELSE <<>>)
        \o <<[role |-> "user", content |-> message]>>

\* the handler from the provider call on
ChatCall(st, message, conversationId, userId, outcome, calls) ==
    IF ~outcome.ok THEN ChatCatch(st, outcome.status, calls)
    ELSE ChatEnd(ChatSaved(st, conversationId, ChatFind(st, conversationId, userId),
                           message, outcome.content),
                 conversationId, outcome.content, calls)

ChatContext(st, message, conversationId, userId, outcome, first) ==
    IF first.error # "" THEN ChatCatch(st, 0, <<>>)
    ELSE ChatCall(st, message, conversationId, userId, outcome,
                  <<[messages |-> ChatMessages(first, message), outcome |-> outcome]>>)

ChatChecked(st, message, conversationId, userId, outcome) ==
    IF message = <<>>
    THEN ChatAnswer(st, 400, "Message is required", EmptyObject, <<>>)
    ELSE ChatContext(st, message, conversationId, userId, outcome,
                     ChatFind(st, conversationId, userId))

\* the enhanced relay (with conversation support)
ChatHandler(st, body, outcome) ==
    ChatChecked(st, Field(body, "message", <<>>), Field(body, "conversationId", ""),
                Field(body, "userId", ""), outcome)

SimpleAnswer(st, status, error, body, calls) ==
    [store |-> st, calls |-> calls,
     res |-> [handler |-> "simpleChat", status |-> status, error |-> error, body |-> body]]

SimpleCall(st, message, outcome) ==
    IF message = <<>> THEN SimpleAnswer(st, 400, "Message is required", EmptyObject, <<>>)
    ELSE IF ~outcome.ok
    THEN SimpleAnswer(st, 500, "Something went wrong", EmptyObject,
                      <<[messages |-> <<[role |-> "user", content |-> message]>>,
                         outcome |-> outcome]>>)
    ELSE SimpleAnswer(st, 200, "", [reply |-> outcome.content],
                      <<[messages |-> <<[role |-> "user", content |-> message]>>,
                         outcome |-> outcome]>>)

\* the first relay (backend/server.js): no conversation support
SimpleChatHandler(st, body, outcome) == SimpleCall(st, Field(body, "message", <<>>), outcome)

-----------------------------------------------------------------------------
(* The state machine.  One request is served at a time: an operation takes *)
(* the idle server to the state holding its request and response (the      *)
(* whole handler has run), and Respond ends the request.                   *)

NoRequest ==
    [op |-> "idle", method |-> "", path |-> <<>>, owner |-> "",
     query |-> EmptyObject, body |-> EmptyObject]

NoResponse == [handler |-> "idle", status |-> 0, error |-> "", body |-> EmptyObject]

Request(op, method, path, owner, query, body) ==
    [op |-> op, method |-> method, path |-> path, owner |-> owner,
     query |-> query, body |-> body]

\* the requests that may be in flight at once
Callers == 1..MaxCalls

\* a request that has not arrived.  The fields of a request in flight: where
\* its handler stands (pc), the request, what its handler holds in memory
\* (first: the result of the first findOne; mem: the document it saves;
\* reply: aiResponse), the provider invocations it made (call), the response
\* it sent (res), and seen: the messages the store held when it first read.
NotStarted ==
    [pc |-> "idle", op |-> "", body |-> EmptyObject, id |-> "", owner |-> "",
     message |-> <<>>, first |-> [error |-> "", doc |-> <<>>], seen |-> <<>>,
     call |-> <<>>, reply |-> <<>>, mem |-> <<>>, res |-> NoResponse]

Init ==
    /\ store = [i \in {} |-> 0]
    /\ nextId = 0
    /\ req = NoRequest
    /\ res = NoResponse
    /\ call = <<>>
    /\ hist = [i \in {} |-> 0]
    /\ procs = [p \in Callers |-> NotStarted]

\* the conversation a request names
TargetOf(r) ==
    IF r.op = "chat" THEN Field(r.body, "conversationId", "")
    ELSE IF Len(r.path) >= 1 THEN r.path[1] ELSE ""

\* history: the messages appendMessage was asked to append to a conversation
\* that was created empty and has not been written by anything else
HistAfter(r, rs, st1) ==
    [i \in DOMAIN hist \cup DOMAIN st1 |->
        IF i \notin DOMAIN hist
        THEN [appended |-> <<>>, clean |-> st1[i].messages = <<>>]
        ELSE IF i # TargetOf(r) \/ ~hist[i].clean THEN hist[i]
        ELSE IF rs.handler = "appendMessage" /\ rs.status = 200
        THEN [hist[i] EXCEPT !.appended =
                 Append(@, CastMessage(r.body.role, r.body.content,
                                       Field(r.body, "model", DefaultModel)))]
        ELSE IF i \in DOMAIN st1 /\ i \in DOMAIN store
                /\ [st1[i] EXCEPT !.updatedAt = 0] = [store[i] EXCEPT !.updatedAt = 0]
        THEN hist[i]
        ELSE [appended |-> <<>>, clean |-> FALSE]]

\* request r has been served, with outcome out
Served(r, out) ==
    /\ req' = r
    /\ res' = out.res
    /\ store' = out.store
    /\ nextId' = Field(out, "nextId", nextId)
    /\ call' = out.calls
    /\ hist' = HistAfter(r, out.res, out.store)
    /\ UNCHANGED procs

\* the router serves request r
Handle(r) == Served(r, Serve(store, nextId, r))

Idle == req.op = "idle"

Create(owners, bodies, cap) ==
    /\ Idle
    /\ nextId < cap
    /\ \E o \in owners, b \in bodies :
          Handle(Request("create", "POST", <<>>, o, EmptyObject, b))

List(owners, queries) ==
    /\ Idle
    /\ \E o \in owners, q \in queries :
          Handle(Request("list", "GET", <<>>, o, q, EmptyObject))

Get(owners, ids) ==
    /\ Idle
    /\ \E o \in owners, id \in ids :
          Handle(Request("get", "GET", <<id>>, o, EmptyObject, EmptyObject))

Update(owners, ids, bodies) ==
    /\ Idle
    /\ \E o \in owners, id \in ids, b \in bodies :
          Handle(Request("update", "PUT", <<id>>, o, EmptyObject, b))

Delete(owners, ids) ==
    /\ Idle
    /\ \E o \in owners, id \in ids :
          Handle(Request("delete", "DELETE", <<id>>, o, EmptyObject, EmptyObject))

AppendMessage(owners, ids, bodies, cap) ==
    /\ Idle
    /\ \E o \in owners, id \in ids, b \in bodies :
          /\ id \in DOMAIN store => Len(store[id].messages) < cap
          /\ Handle(Request("appendMessage", "POST", <<id, "messages">>, o, EmptyObject, b))

Search(owners, queries) ==
    /\ Idle
    /\ \E o \in owners, q \in queries :
          Handle(Request("search", "GET", <<"search">>, o, q, EmptyObject))

Chat(bodies, outcomes, cap) ==
    /\ Idle
    /\ \A i \in DOMAIN store : Len(store[i].messages) + 2 <= cap
    /\ \E b \in bodies, outcome \in outcomes :
          Served(Spread(Request("chat", "POST", <<"api", "chat">>, "", EmptyObject, b),
                        [provider |-> outcome]),
                 ChatHandler(store, b, outcome))

SimpleChat(bodies, outcomes) ==
    /\ Idle
    /\ \E b \in bodies, outcome \in outcomes :
          Served(Spread(Request("simpleChat", "POST", <<"api", "chat">>, "", EmptyObject, b),
                        [provider |-> outcome]),
                 SimpleChatHandler(store, b, outcome))

Respond ==
    /\ ~Idle
    /\ req' = NoRequest
    /\ res' = NoResponse
    /\ call' = <<>>
    /\ UNCHANGED <<store, nextId, hist, procs>>

-----------------------------------------------------------------------------
(* Requests in flight.  A handler gives way at each await: a findOne, the  *)
(* provider call and each save is a step of its own, and steps of other    *)
(* requests may come between two of them.                                  *)

\* the handler has answered
Finished(q, rs) == [q EXCEPT !.pc = "done", !.res = rs]

\* the messages of the conversation a { _id, userId } filter matches
SeenBy(st, id, userId) ==
    IF id \in DOMAIN st /\ st[id].userId = userId THEN <<st[id].messages>> ELSE <<>>

\* the relay after its first findOne: the context is built and the provider
\* call is awaited
ChatAwaiting(q, st, first) ==
    IF first.error # "" THEN Finished(q, ChatCatch(st, 0, <<>>).res)
    ELSE [q EXCEPT !.pc = "calling", !.first = first, !.seen = SeenBy(st, q.id, q.owner)]

\* the relay from the arrival of the request to its first await
ChatStarted(q, st) ==
    IF q.message = <<>>
    THEN Finished(q, ChatAnswer(st, 400, "Message is required", EmptyObject, <<>>).res)
    ELSE ChatAwaiting(q, st, ChatFind(st, q.id, q.owner))

ChatArrived(body) ==
    [NotStarted EXCEPT !.op = "chat", !.body = body,
                       !.message = Field(body, "message", <<>>),
                       !.id = Field(body, "conversationId", ""),
                       !.owner = Field(body, "userId", "")]

\* the provider invocation, built again from the store as it is when the
\* provider answers
ProviderCallLate(q, outcome) ==
    [messages |-> ChatMessages(ChatFind(store, q.id, q.owner), q.message), outcome |-> outcome]

\* the provider invocation: the messages are those built from the first
\* findOne
ProviderCall(q, outcome) ==
    [messages |-> ChatMessages(q.first, q.message), outcome |-> outcome]

\* the relay when the provider has answered
ChatReplied(q, st, outcome, calls) ==
    IF ~outcome.ok THEN Finished([q EXCEPT !.call = calls], ChatCatch(st, outcome.status, calls).res)
    ELSE IF q.id # "" /\ q.owner # ""
    THEN [q EXCEPT !.pc = "finding", !.call = calls, !.reply = outcome.content]
    ELSE Finished([q EXCEPT !.call = calls, !.reply = outcome.content],
                  ChatEnd([ok |-> TRUE, error |-> "", store |-> st], q.id, outcome.content,
                          calls).res)

\* the relay after its second findOne
ChatFoundAgain(q, st, second) ==
    IF second.error # "" THEN Finished(q, ChatCatch(st, 0, q.call).res)
    ELSE IF second.doc # <<>>
    THEN [q EXCEPT !.pc = "savingUser", !.mem = <<Loaded(q.id, second.doc[1])>>]
    ELSE Finished(q, ChatEnd([ok |-> TRUE, error |-> "", store |-> st], q.id, q.reply,
                             q.call).res)

\* the first write made with the reply in place of the user's message
WriteReplyFirst(st, q) == addMessage(st, q.mem[1], "assistant", q.reply, DefaultModel)

\* await conversation.addMessage('user', message)
WriteUser(st, q) == addMessage(st, q.mem[1], "user", q.message, DefaultModel)

\* await conversation.addMessage('assistant', aiResponse)
WriteAssistant(st, q) == addMessage(st, q.mem[1], "assistant", q.reply, DefaultModel)

\* the relay after its first addMessage
ChatUserSaved(q, s) ==
    IF s.ok THEN [q EXCEPT !.pc = "savingAssistant", !.mem = <<s.mem>>]
    ELSE Finished(q, ChatEnd(s, q.id, q.reply, q.call).res)

\* the relay after its second addMessage
ChatAssistantSaved(q, s) ==
    Finished(IF s.ok THEN [q EXCEPT !.mem = <<s.mem>>] ELSE q,
             ChatEnd(s, q.id, q.reply, q.call).res)

AppendArrived(owner, id, body) ==
    [NotStarted EXCEPT !.op = "appendMessage", !.body = body, !.id = id, !.owner = owner]

\* the request an appendMessage in flight was made with
AppendRequest(q) ==
    Request("appendMessage", "POST", <<q.id, "messages">>, q.owner, EmptyObject, q.body)

\* the message handler from the arrival of the request to its first save:
\* it answers at once when a check of the body fails or findOne finds nothing
AppendStarted(q, st, nid, found) ==
    IF Field(q.body, "role", "") \in Roles /\ Field(q.body, "content", <<>>) # <<>>
       /\ found.doc # <<>>
    THEN [q EXCEPT !.pc = "saving", !.first = found, !.mem = <<Loaded(q.id, found.doc[1])>>,
                   !.seen = SeenBy(st, q.id, q.owner)]
    ELSE Finished(q, AppendHandler(st, nid, AppendRequest(q)).res)

\* await conversation.addMessage(role, content, model)
WriteAppended(st, q) ==
    addMessage(st, q.mem[1], q.body.role, q.body.content, Field(q.body, "model", DefaultModel))

\* the message handler after addMessage
AppendSaved(q, nid, s) ==
    IF s.ok /\ Len(s.mem.doc.messages) = 1
    THEN [q EXCEPT !.pc = "titling", !.mem = <<s.mem>>]
    ELSE Finished(IF s.ok THEN [q EXCEPT !.mem = <<s.mem>>] ELSE q, AppendAnswer(nid, s).res)

\* the message handler after updateTitleFromFirstMessage
AppendTitled(q, nid, s) ==
    Finished(IF s.ok THEN [q EXCEPT !.mem = <<s.mem>>] ELSE q, AppendAnswer(nid, s).res)

\* history after a step of a request in flight on conversation id
HistStepped(id, st1) ==
    HistAfter(Request("step", "", <<id>>, "", EmptyObject, EmptyObject), NoResponse, st1)

\* a step of request p that reads the store or nothing
Reads(p, q) ==
    /\ procs' = [procs EXCEPT ![p] = q]
    /\ UNCHANGED <<store, nextId, req, res, call, hist>>

\* a step of request p that saves: s is what the save returned
Writes(p, q, s) ==
    /\ procs' = [procs EXCEPT ![p] = q]
    /\ store' = s.store
    /\ hist' = HistStepped(procs[p].id, s.store)
    /\ UNCHANGED <<nextId, req, res, call>>

At(p, pc, op) == procs[p].pc = pc /\ procs[p].op = op

\* callers are numbered in the order their requests arrive
NextCaller(p) == procs[p].pc = "idle" /\ \A r \in Callers : r < p => procs[r].pc # "idle"

ChatBegin(bodies) ==
    \E p \in Callers :
        /\ NextCaller(p)
        /\ \E b \in bodies[p] : Reads(p, ChatStarted(ChatArrived(b), store))

ChatProvider(outcomes) ==
    \E p \in Callers :
        /\ At(p, "calling", "chat")
        /\ \E outcome \in outcomes[p] :
              Reads(p, ChatReplied(procs[p], store, outcome, <<ProviderCall(procs[p], outcome)>>))

ChatFindAgain ==
    \E p \in Callers :
        /\ At(p, "finding", "chat")
        /\ Reads(p, ChatFoundAgain(procs[p], store, ChatFind(store, procs[p].id, procs[p].owner)))

ChatSaveUser ==
    \E p \in Callers :
        /\ At(p, "savingUser", "chat")
        /\ Writes(p, ChatUserSaved(procs[p], WriteUser(store, procs[p])),
                  WriteUser(store, procs[p]))

ChatSaveAssistant ==
    \E p \in Callers :
        /\ At(p, "savingAssistant", "chat")
        /\ Writes(p, ChatAssistantSaved(procs[p], WriteAssistant(store, procs[p])),
                  WriteAssistant(store, procs[p]))

AppendBegin(owners, ids, bodies) ==
    \E p \in Callers :
        /\ NextCaller(p)
        /\ \E o \in owners, id \in ids, b \in bodies[p] :
              Reads(p, AppendStarted(AppendArrived(o, id, b), store, nextId,
                                     FindOne(store, id, o)))

AppendSave ==
    \E p \in Callers :
        /\ At(p, "saving", "appendMessage")
        /\ Writes(p, AppendSaved(procs[p], nextId, WriteAppended(store, procs[p])),
                  WriteAppended(store, procs[p]))

AppendTitle ==
    \E p \in Callers :
        /\ At(p, "titling", "appendMessage")
        /\ Writes(p, AppendTitled(procs[p], nextId,
                                  updateTitleFromFirstMessage(store, procs[p].mem[1])),
                  updateTitleFromFirstMessage(store, procs[p].mem[1]))

-----------------------------------------------------------------------------
(* Inputs *)

Hi == <<"h", "i">>
Blank == <<" ">>
Ok == <<"o", "k">>

\* appendMessage bodies: a valid one, then a role outside the enum, a
\* missing role, an empty role, a missing content, an empty content
GoodAppends == {[role |-> "user", content |-> Hi]}

BadAppends ==
    {[role |-> "system", content |-> Hi],
     [content |-> Hi],
     [role |-> "", content |-> Hi],
     [role |-> "user"],
     [role |-> "user", content |-> <<>>]}

(* Spec: two owners working on each other's conversation ids *)

Next ==
    \/ Create(Owners, {EmptyObject}, MaxConvs)
    \/ List(Owners, {EmptyObject, [archived |-> "true"]})
    \/ Get(Owners, ObjectIds)
    \/ Update(Owners, ObjectIds, {[isArchived |-> TRUE]})
    \/ Delete(Owners, ObjectIds)
    \/ AppendMessage(Owners, ObjectIds,
                     GoodAppends \cup BadAppends \cup {[role |-> "user", content |-> Blank]},
                     OwnMsgs)
    \/ Respond

Spec == Init /\ [][Next]_vars

-----------------------------------------------------------------------------
(* Ownership *)

OwnedOps == {"get", "update", "delete", "appendMessage"}

\* r names a stored conversation of st that belongs to another owner
Foreign(st, r) ==
    /\ r.op \in OwnedOps
    /\ r.path[1] \in DOMAIN st
    /\ st[r.path[1]].userId # r.owner

\* the handler rejects r's body before it looks the conversation up
BodyRejected(r) ==
    \/ /\ r.op = "appendMessage"
       /\ \/ Field(r.body, "role", "") \notin Roles
          \/ Field(r.body, "content", <<>>) = <<>>
    \/ /\ r.op = "update"
       /\ ~ValidUpdates(CastUpdates(UpdatesOf(r.body)))

Without(st, id) == [i \in DOMAIN st \ {id} |-> st[i]]

OwnedBy(st, owner) == {i \in DOMAIN st : st[i].userId = owner}

\* C1 as stated: get, update, delete and appendMessage on another owner's
\* conversation all answer 404.
C1_AllNotFound == Foreign(store, req) => res.status = 404

\* C1 (amended): a get, update, delete or appendMessage on another owner's
\* conversation changes nothing and is answered exactly as for an id that does
\* not exist: 400 when the handler rejects the body before the lookup, 404
\* otherwise; a list returns conversations of the caller only and changes
\* nothing.
C1_Isolation ==
    [][/\ Foreign(store, req') =>
            /\ store' = store
            /\ res'.status = (IF BodyRejected(req') THEN 400 ELSE 404)
            /\ res' = Serve(Without(store, req'.path[1]), nextId, req').res
       /\ req'.op = "list" =>
            /\ store' = store
            /\ res'.status = 200
            /\ \A k \in 1..Len(res'.body.conversations) :
                  res'.body.conversations[k].id \in OwnedBy(store, req'.owner)
            /\ res'.body.total = Cardinality({i \in OwnedBy(store, req'.owner) :
                  store[i].isArchived = (Field(req'.query, "archived", "false") = "true")})
      ]_vars

\* B updates A's stored conversation with a valid body and is answered 404,
\* while A's own conversation list is not empty
C1_Witness ==
    /\ Foreign(store, req)
    /\ req.op = "update"
    /\ ~BodyRejected(req)
    /\ res.status = 404
    /\ OwnedBy(store, req.owner) # {}

\* C8: appendMessage with a role outside {user, assistant}, or a missing or
\* empty role or content, answers 400 and leaves the store as it was, whether
\* or not the id resolves under the owner.
C8_RejectedUnchanged ==
    [][(req'.op = "appendMessage" /\ BodyRejected(req')) =>
            (res'.status = 400 /\ store' = store /\ nextId' = nextId)]_vars

\* role "system" sent to a conversation the caller owns: 400
C8_Witness ==
    /\ req.op = "appendMessage"
    /\ Field(req.body, "role", "") = "system"
    /\ req.path[1] \in OwnedBy(store, req.owner)
    /\ res.status = 400

-----------------------------------------------------------------------------
(* SpecSummary: one owner appending to conversations *)

FewIds == {OidNames[i] : i \in 1..(FewConvs + 1)}

PaddedHi == <<" ", "h", "i", " ">>

NextSummary ==
    \/ Create({"A"}, {EmptyObject, [initialMessage |-> Hi]}, FewConvs)
    \/ AppendMessage({"A"}, FewIds,
                     {[role |-> "user", content |-> Hi],
                      [role |-> "user", content |-> PaddedHi],
                      [role |-> "assistant", content |-> Ok, model |-> "gpt-4"],
                      [role |-> "user", content |-> Blank]},
                     MaxMsgs)
    \/ Update({"A"}, FewIds, {[isPinned |-> TRUE]})
    \/ Respond

SpecSummary == Init /\ [][NextSummary]_vars

\* the conversation a summary response is about
SummaryId == IF req.op = "create" THEN res.body.id ELSE req.path[1]

\* a summary was answered for a conversation created empty and written by
\* appendMessage only
CleanSummary ==
    /\ \/ req.op = "create" /\ res.status = 201
       \/ req.op = "appendMessage" /\ res.status = 200
    /\ hist[SummaryId].clean

\* C3: after N successful appendMessage calls on a conversation created empty
\* (and nothing else written to it) the summary reports messageCount = N and
\* lastMessage = the N-th appended message; for N = 0 lastMessage is undefined
\* and the summary is still produced.
C3_SummaryCounts ==
    CleanSummary =>
        /\ res.body.messageCount = Len(hist[SummaryId].appended)
        /\ res.body.lastMessage =
              ArrayAt(hist[SummaryId].appended, Len(hist[SummaryId].appended) - 1)
        /\ Len(hist[SummaryId].appended) = 0 => res.body.lastMessage = <<>>
        /\ store[SummaryId].messages = hist[SummaryId].appended

\* the third appendMessage on a conversation created empty has been answered,
\* the second and third messages differing
C3_Witness ==
    /\ CleanSummary
    /\ req.op = "appendMessage"
    /\ Len(hist[SummaryId].appended) = 3
    /\ hist[SummaryId].appended[2] # hist[SummaryId].appended[3]

-----------------------------------------------------------------------------
(* SpecTitle: conversations created from a first message *)

A40 == Rep("a", 40)
A50 == Rep("a", 50)
A51 == Rep("a", 51)
A60 == Rep("a", 60)
Trip == <<"T", "r", "i", "p", " ", "P", "l", "a", "n", "n", "i", "n", "g">>

NextTitle ==
    \/ Create({"A"},
              {EmptyObject,
               [initialMessage |-> A40],
               [initialMessage |-> A50],
               [initialMessage |-> A51],
               [initialMessage |-> A60],
               [title |-> Trip, initialMessage |-> A60],
               [title |-> Blank, initialMessage |-> A40],
               [title |-> Blank]},
              FewConvs)
    \/ AppendMessage({"A"}, FewIds,
                     {[role |-> "user", content |-> A60], [role |-> "assistant", content |-> Ok]},
                     MaxMsgs)
    \/ Get({"A"}, FewIds)
    \/ Respond

SpecTitle == Init /\ [][NextTitle]_vars

\* the title the derivation rule gives for a first user message
DerivedTitle(content) ==
    IF Len(content) > TitlePrefixLen
    THEN SubSeq(content, 1, TitlePrefixLen) \o <<".", ".", ".">>
    ELSE content

\* C2: creating a conversation with no title and an initialMessage of more
\* than 50 characters yields the title made of its first 50 characters and
\* "..."; with at most 50 characters the title is the message itself.
C2_TitleDerivedOnCreate ==
    (/\ req.op = "create"
     /\ ~Has(req.body, "title")
     /\ Has(req.body, "initialMessage")
     /\ res.status = 201)
        => res.body.title = DerivedTitle(req.body.initialMessage)

-----------------------------------------------------------------------------
(* SpecChat: the relay on a conversation that grows past the context window *)

Failed(status) == [ok |-> FALSE, status |-> status]

Replied(content) == [ok |-> TRUE, content |-> content]

ChatBodies ==
    {[message |-> Hi, conversationId |-> "c1", userId |-> "A"],
     [message |-> PaddedHi, conversationId |-> "c1", userId |-> "A"],
     [message |-> Blank, conversationId |-> "c1", userId |-> "A"],
     [message |-> Hi, conversationId |-> "c1", userId |-> "B"],
     [message |-> Hi, conversationId |-> "c3", userId |-> "A"],
     [message |-> Hi, conversationId |-> "search", userId |-> "A"],
     [message |-> Hi, conversationId |-> "c1"],
     [message |-> Hi, userId |-> "A"],
     [message |-> Hi],
     [conversationId |-> "c1", userId |-> "A"]}

Outcomes == {Replied(Ok), Replied(<<>>), Failed(401), Failed(429), Failed(500), Failed(503), Failed(0)}

NextChat ==
    \/ Create({"A"}, {EmptyObject}, FewConvs)
    \/ AppendMessage({"A"}, {"c1"}, {[role |-> "user", content |-> Hi]}, MaxChatMsgs)
    \/ Chat(ChatBodies, Outcomes, MaxChatMsgs)
    \/ SimpleChat({[message |-> Hi], EmptyObject}, {Replied(Ok), Failed(401)})
    \/ Respond

SpecChat == Init /\ [][NextChat]_vars

\* chat request r names a conversation of st that resolves under its userId
Resolves(st, r) ==
    /\ r.op = "chat"
    /\ Has(r.body, "conversationId") /\ Has(r.body, "userId")
    /\ r.body.conversationId \in DOMAIN st
    /\ st[r.body.conversationId].userId = r.body.userId

\* the last min(10, n) of the n messages, each reduced to { role, content }
LastTen(messages) ==
    [i \in 1..(IF Len(messages) < 10 THEN Len(messages) ELSE 10) |->
        [role |-> messages[Len(messages) - (IF Len(messages) < 10 THEN Len(messages) ELSE 10) + i].role,
         content |-> messages[Len(messages) - (IF Len(messages) < 10 THEN Len(messages) ELSE 10) + i].content]]

\* C4: a successful converse on a conversation that resolves under the owner
\* passes the provider the last min(10, n) of the n stored messages, oldest
\* first, each reduced to {role, content}, then the new user message; after
\* it the stored sequence is the old one extended by the user message and the
\* assistant reply, in that order.
C4_ContextAndGrowth ==
    [][(Resolves(store, req') /\ res'.status = 200) =>
          /\ Len(call') = 1
          /\ call'[1].messages =
                LastTen(store[req'.body.conversationId].messages)
                    \o <<[role |-> "user", content |-> req'.body.message]>>
          /\ store'[req'.body.conversationId].messages =
                store[req'.body.conversationId].messages
                    \o <<[role |-> "user", content |-> Trim(req'.body.message),
                          model |-> DefaultModel],
                         [role |-> "assistant", content |-> req'.provider.content,
                          model |-> DefaultModel]>>
      ]_vars

\* a successful converse on a conversation that held 11 messages: 10 of them
\* and the new one went to the provider, 13 are stored
C4_Witness ==
    /\ Resolves(store, req)
    /\ res.status = 200
    /\ Len(call[1].messages) = 11
    /\ Len(store[req.body.conversationId].messages) = 13

\* the request carries no conversationId
Unattached(r) == ~Has(r.body, "conversationId") /\ Field(r.body, "message", <<>>) # <<>>

\* C5: converse with no conversationId returns the provider's reply and
\* conversationId = none, and leaves the whole store unchanged.
C5_UnattachedFrame ==
    [][/\ (req'.op \in {"chat", "simpleChat"} /\ Unattached(req')) =>
            /\ store' = store
            /\ nextId' = nextId
            /\ req'.provider.ok =>
                  /\ res'.status = 200
                  /\ res'.body.reply = req'.provider.content
       /\ (req'.op = "chat" /\ Unattached(req') /\ req'.provider.ok) =>
            res'.body.conversationId = ""
       /\ (req'.op = "simpleChat" /\ Unattached(req') /\ req'.provider.ok) =>
            ~Has(res'.body, "conversationId")
      ]_vars

\* a reply was returned to a caller who has a stored conversation and sent
\* no conversationId
C5_Witness ==
    /\ req.op = "chat"
    /\ Unattached(req)
    /\ Has(req.body, "userId")
    /\ OwnedBy(store, req.body.userId) # {}
    /\ res.status = 200
    /\ res.body.reply = Ok

\* C9: when the provider call fails the answer follows the provider's
\* status: 401 gives 401, 429 gives 429, anything else 500; no message is
\* appended and the store is unchanged.
C9_ProviderFailure ==
    [][(req'.op = "chat" /\ call' # <<>> /\ ~req'.provider.ok) =>
          /\ res'.status = (IF req'.provider.status = 401 THEN 401
                            ELSE IF req'.provider.status = 429 THEN 429
                            ELSE 500)
          /\ res'.error = (IF req'.provider.status = 401 THEN "Invalid OpenAI API key"
                           ELSE IF req'.provider.status = 429
                           THEN "Rate limit exceeded. Please try again later."
                           ELSE "Something went wrong with the AI service")
          /\ store' = store
      ]_vars

\* the provider answered 429 to a call made for a stored conversation
C9_Witness ==
    /\ Resolves(store, req)
    /\ call # <<>>
    /\ req.provider = Failed(429)
    /\ res.status = 429
    /\ store[req.body.conversationId].messages # <<>>

\* the chat request names a conversation and says something
Attached(r) ==
    /\ r.op = "chat"
    /\ Field(r.body, "conversationId", "") # ""
    /\ Field(r.body, "message", <<>>) # <<>>

\* what a call that matched nothing must do: the provider is called with the
\* user's message alone, nothing is stored, and a reply is returned together
\* with the conversationId that was sent
PassesThrough ==
    /\ Len(call') = 1
    /\ call'[1].messages = <<[role |-> "user", content |-> req'.body.message]>>
    /\ store' = store
    /\ nextId' = nextId
    /\ req'.provider.ok =>
          /\ res'.status = 200
          /\ res'.body.reply = req'.provider.content
          /\ res'.body.conversationId = req'.body.conversationId

-----------------------------------------------------------------------------
(* SpecUpdate: one owner updating the fields of a conversation *)

NextUpdate ==
    \/ Create({"A"}, {EmptyObject, [initialMessage |-> Hi]}, FewConvs)
    \/ Update({"A"}, FewIds,
              {EmptyObject,
               [title |-> Trip],
               [tags |-> <<PaddedHi>>],
               [isArchived |-> TRUE],
               [isPinned |-> TRUE],
               [settings |-> [temperature |-> 5]],
               [settings |-> [maxTokens |-> 2000]],
               [settings |-> [temperature |-> 30]],
               [title |-> Trip, settings |-> [maxTokens |-> 2000]]})
    \/ Get({"A"}, FewIds)
    \/ Respond

SpecUpdate == Init /\ [][NextUpdate]_vars

\* the value update stores for a field the request gives
Given(body, f) ==
    IF f = "title" THEN Trim(body[f])
    ELSE IF f = "tags" THEN [i \in 1..Len(body[f]) |-> Trim(body[f][i])]
    ELSE body[f]

\* C6: update changes only the fields present in the request among title,
\* tags, isArchived, isPinned and settings; a given settings is shallow-merged
\* with the stored settings, so a stored key the request leaves out keeps its
\* value; messages and owner are never changed.
C6_UpdateMerges ==
    [][(req'.op = "update" /\ res'.status = 200) =>
          /\ DOMAIN store' = DOMAIN store
          /\ \A f \in {"title", "tags", "isArchived", "isPinned"} :
                store'[req'.path[1]][f] =
                    (IF Has(req'.body, f) THEN Given(req'.body, f) ELSE store[req'.path[1]][f])
          /\ Hydrate(store'[req'.path[1]]).settings =
                (IF Has(req'.body, "settings")
                 THEN Spread(Hydrate(store[req'.path[1]]).settings, req'.body.settings)
                 ELSE Hydrate(store[req'.path[1]]).settings)
          /\ store'[req'.path[1]].messages = store[req'.path[1]].messages
          /\ store'[req'.path[1]].userId = store[req'.path[1]].userId
      ]_vars

-----------------------------------------------------------------------------
(* SpecList: pages of an owner's conversations, and the search route *)

ListIds == {OidNames[i] : i \in 1..(ListConvs + 1)}

Notes == <<"N", "o", "t", "e", "s">>

TripQuery == <<"t", "r", "i", "p">>

ListQueries ==
    {EmptyObject, [archived |-> "true"], [search |-> TripQuery]}
    \cup {[page |-> p, limit |-> l] : p \in 1..3, l \in 1..2}
    \cup {[page |-> p, limit |-> 1, archived |-> "true"] : p \in 1..2}
    \cup {[page |-> p, limit |-> 1, archived |-> "false", search |-> TripQuery] : p \in 1..2}

SearchQueries == {EmptyObject, [q |-> TripQuery], [q |-> TripQuery, page |-> 1, limit |-> 2]}

NextList ==
    \/ Create({"A"}, {[title |-> Trip], [title |-> Notes],
                       [title |-> Notes, initialMessage |-> Trip]}, ListConvs)
    \/ Create({"B"}, {[title |-> Trip]}, ListConvs)
    \/ Update({"A"}, ListIds, {[isArchived |-> TRUE]})
    \/ List({"A"}, ListQueries)
    \/ Search({"A"}, SearchQueries)
    \/ Respond

SpecList == Init /\ [][NextList]_vars

\* needle is a case-insensitive substring of hay
ContainsFolded(needle, hay) ==
    \E i \in 0..(Len(hay) - Len(needle)) :
        \A k \in 1..Len(needle) : ToLower(needle[k]) = ToLower(hay[i + k])

\* the conversations a list request is about
Listed(r) ==
    {i \in DOMAIN store :
        /\ store[i].userId = r.owner
        /\ store[i].isArchived = (Field(r.query, "archived", "false") = "true")
        /\ Has(r.query, "search") =>
              \/ ContainsFolded(r.query.search, store[i].title)
              \/ \E m \in 1..Len(store[i].messages) :
                    ContainsFolded(r.query.search, store[i].messages[m].content)}

\* how many of the conversations in S were updated after i
NewerIn(S, i) == Cardinality({j \in S : store[j].updatedAt > store[i].updatedAt})

\* C10: list with page >= 1 and limit >= 1 reports total = the number of the
\* owner's conversations with the requested isArchived (and matching search),
\* totalPages = ceil(total / limit), and returns positions (page-1)*limit ..
\* min(page*limit, total)-1 of them, most recently updated first; total 45 and
\* limit 20 give 3 pages, the third holding 5.
C10_ListPages ==
    (req.op = "list" /\ Has(req.query, "page") /\ Has(req.query, "limit")
        /\ req.query.page >= 1 /\ req.query.limit >= 1) =>
        /\ res.status = 200
        /\ res.body.total = Cardinality(Listed(req))
        /\ (res.body.totalPages - 1) * req.query.limit < res.body.total
        /\ res.body.totalPages * req.query.limit >= res.body.total
        /\ res.body.totalPages >= 0
        /\ Len(res.body.conversations) =
              Max(0, Min(req.query.page * req.query.limit, res.body.total)
                        - (req.query.page - 1) * req.query.limit)
        /\ \A k \in 1..Len(res.body.conversations) :
              /\ res.body.conversations[k].id \in Listed(req)
              /\ NewerIn(Listed(req), res.body.conversations[k].id) =
                    (req.query.page - 1) * req.query.limit + k - 1
        /\ Ceil(45, 20) = 3
        /\ Len(Page([i \in 1..45 |-> i], (3 - 1) * 20, 20)) = 5

\* page 2 of 3 conversations listed 2 to a page: the least recently updated
C10_Witness ==
    /\ req.op = "list"
    /\ Field(req.query, "page", 0) = 2
    /\ Field(req.query, "limit", 0) = 2
    /\ res.body.total = 3
    /\ res.body.totalPages = 2
    /\ Len(res.body.conversations) = 1

\* C7: a GET /conversations/search request is handled by the search
\* operation: with a non-empty q it returns 200 with the page of the owner's
\* conversations matching q in title, message content or tag, and echoes q;
\* with q missing or empty it answers 400 'Search query is required'.
C7_SearchReachable ==
    req.op = "search" =>
        /\ res.handler = "search"
        /\ Field(req.query, "q", <<>>) = <<>> =>
              (res.status = 400 /\ res.error = "Search query is required")
        /\ Field(req.query, "q", <<>>) # <<>> =>
              /\ res.status = 200
              /\ res.body.query = req.query.q
              /\ {res.body.conversations[k].id : k \in 1..Len(res.body.conversations)} \subseteq
                    {i \in OwnedBy(store, req.owner) :
                        \/ ContainsFolded(req.query.q, store[i].title)
                        \/ \E m \in 1..Len(store[i].messages) :
                              ContainsFolded(req.query.q, store[i].messages[m].content)
                        \/ \E t \in 1..Len(store[i].tags) :
                              ContainsFolded(req.query.q, store[i].tags[t])}

-----------------------------------------------------------------------------
(* SpecRace: requests in flight on one conversation, with the owner's other *)
(* requests served between their steps                                     *)

Digits == <<"1", "2", "3", "4">>

\* what caller p says, what the provider replies to p, what p appends
TextOf(p) == <<"u", Digits[p]>>

ReplyOf(p) == <<"a", Digits[p]>>

NoteOf(p) == <<"m", Digits[p]>>

RaceChats == [p \in Callers |-> {[message |-> TextOf(p), conversationId |-> "c1", userId |-> "A"]}]

RaceOutcomes == [p \in Callers |-> {Replied(ReplyOf(p)), Replied(<<>>)}]

RaceAppends == [p \in Callers |-> {[role |-> "user", content |-> NoteOf(p)]}]

NextRace ==
    \/ Create({"A"}, {EmptyObject}, FewConvs)
    \/ ChatBegin(RaceChats)
    \/ ChatProvider(RaceOutcomes)
    \/ ChatFindAgain
    \/ ChatSaveUser
    \/ ChatSaveAssistant
    \/ AppendBegin({"A"}, {"c1"}, RaceAppends)
    \/ AppendSave
    \/ AppendTitle
    \/ Respond

SpecRace == Init /\ [][NextRace]_vars

\* where a message with this role and content stands in a stored sequence
PlacesOf(messages, role, content) ==
    {k \in 1..Len(messages) : messages[k].role = role /\ messages[k].content = content}

\* C11: in every reachable state an assistant message appended by a converse
\* call is preceded in the stored sequence by that same call's user message,
\* and while a call stands between its two writes its user message is stored
\* and its reply is not.
C11_UserBeforeAssistant ==
    /\ \A id \in DOMAIN store, p \in Callers :
          \A k \in PlacesOf(store[id].messages, "assistant", ReplyOf(p)) :
              \E j \in PlacesOf(store[id].messages, "user", TextOf(p)) : j < k
    /\ \A p \in Callers :
          At(p, "savingAssistant", "chat") =>
              /\ procs[p].id \in DOMAIN store
              /\ PlacesOf(store[procs[p].id].messages, "user", TextOf(p)) # {}
              /\ PlacesOf(store[procs[p].id].messages, "assistant", ReplyOf(p)) = {}

\* a converse call has ended with 500 because its second write failed (the
\* provider's reply was empty): its user message is stored, no reply is
C11_Witness ==
    \E p \in Callers :
        /\ At(p, "done", "chat")
        /\ procs[p].res.status = 500
        /\ procs[p].call # <<>> /\ procs[p].call[1].outcome.ok
        /\ procs[p].id \in DOMAIN store
        /\ PlacesOf(store[procs[p].id].messages, "user", TextOf(p)) # {}
        /\ \A k \in 1..Len(store[procs[p].id].messages) :
              store[procs[p].id].messages[k].role = "user"

\* the contents of a stored sequence
ContentsOf(messages) == [k \in 1..Len(messages) |-> messages[k].content]

\* C14: two converse calls on one conversation are not serialized.  The
\* messages a call passes to the provider are built from what the store held
\* when the call first read the conversation (the last 10 of them, then the
\* call's user message), whatever other requests have stored by the time the
\* provider answers.
C14_ContextIsSnapshot ==
    \A p \in Callers :
        (procs[p].op = "chat" /\ procs[p].call # <<>>) =>
            procs[p].call[1].messages =
                (IF procs[p].seen = <<>> THEN <<>> ELSE LastTen(procs[p].seen[1]))
                    \o <<[role |-> "user", content |-> procs[p].message]>>

\* both calls have answered 200 and the conversation holds user1, user2,
\* assistant1, assistant2, while the second call's context was its own
\* message alone: it omits user1, stored before user2
C14_Witness ==
    /\ "c1" \in DOMAIN store
    /\ ContentsOf(store["c1"].messages) = <<TextOf(1), TextOf(2), ReplyOf(1), ReplyOf(2)>>
    /\ \A p \in {1, 2} : At(p, "done", "chat") /\ procs[p].res.status = 200
    /\ procs[2].call[1].messages = <<[role |-> "user", content |-> TextOf(2)]>>

-----------------------------------------------------------------------------
(* SpecLate: a delete served while requests that have read the             *)
(* conversation are in flight                                              *)

LateChats == [p \in Callers |-> IF p <= LateCalls THEN RaceChats[p] ELSE {}]

LateOutcomes == [p \in Callers |-> {Replied(ReplyOf(p))}]

LateAppends ==
    [p \in Callers |-> IF p <= LateCalls THEN RaceAppends[p] \cup {[role |-> "user"]} ELSE {}]

NextLate ==
    \/ Create({"A"}, {EmptyObject}, FewConvs)
    \/ Delete({"A"}, {"c1"})
    \/ Get({"A"}, {"c1"})
    \/ List({"A"}, {EmptyObject})
    \/ Update({"A"}, {"c1"}, {EmptyObject})
    \/ ChatBegin(LateChats)
    \/ ChatProvider(LateOutcomes)
    \/ ChatFindAgain
    \/ ChatSaveUser
    \/ ChatSaveAssistant
    \/ AppendBegin({"A"}, {"c1"}, LateAppends)
    \/ AppendSave
    \/ AppendTitle
    \/ Respond

SpecLate == Init /\ [][NextLate]_vars

\* the ids of the conversations that were stored and have been deleted
Deleted(st, nid) == {OidNames[i] : i \in 1..nid} \ DOMAIN st

\* an appendMessage request arrives and is answered at once
AnsweredAtOnce(p) ==
    /\ procs[p].pc = "idle"
    /\ procs'[p].pc = "done"
    /\ procs'[p].op = "appendMessage"

-----------------------------------------------------------------------------
(* SpecAppend: every operation that writes a conversation, served between  *)
(* the steps of the requests in flight on it                               *)

NextAppend ==
    \/ Create({"A"}, {EmptyObject}, FewConvs)
    \/ Update({"A"}, {"c1"}, {[messages |-> <<>>]})
    \/ AppendMessage({"A"}, {"c1"}, {[role |-> "user", content |-> Hi]}, OwnMsgs)
    \/ Delete({"A"}, {"c1"})
    \/ ChatBegin(LateChats)
    \/ ChatProvider(LateOutcomes)
    \/ ChatFindAgain
    \/ ChatSaveUser
    \/ ChatSaveAssistant
    \/ AppendBegin({"A"}, {"c1"}, [p \in Callers |-> IF p <= LateCalls THEN RaceAppends[p] ELSE {}])
    \/ AppendSave
    \/ AppendTitle
    \/ Respond

SpecAppend == Init /\ [][NextAppend]_vars

IsPrefix(a, b) == Len(a) <= Len(b) /\ SubSeq(b, 1, Len(a)) = a

\* C13: messages are append-only.  At every step the stored message sequence
\* of each conversation that stays stored is a prefix of its sequence after
\* the step, and a conversation leaves the store only by a successful delete
\* of it.
C13_AppendOnly ==
    [][/\ \A id \in DOMAIN store \cap DOMAIN store' :
             IsPrefix(store[id].messages, store'[id].messages)
       /\ \A id \in DOMAIN store \ DOMAIN store' :
             Idle /\ req'.op = "delete" /\ req'.path[1] = id /\ res'.status = 200
      ]_vars

\* an update carrying a messages key has been served on a conversation that
\* stores a message appended by another request, then a converse call's user
\* message and reply, the call having saved from a document that never held
\* the other request's message
C13_Witness ==
    /\ req.op = "update" /\ res.status = 200
    /\ Has(req.body, "messages")
    /\ req.path[1] \in DOMAIN store
    /\ \E p \in Callers :
          /\ At(p, "done", "chat")
          /\ procs[p].mem # <<>>
          /\ Len(procs[p].mem[1].doc.messages) = 2
          /\ Len(store[req.path[1]].messages) = 3
          /\ store[req.path[1]].messages[1].content = Hi
          /\ store[req.path[1]].messages[2].content = TextOf(p)
          /\ store[req.path[1]].messages[3].content = ReplyOf(p)

=============================================================================
